---- MODULE Spec2Model ----
(***************************************************************************)
(* Model of the study-tracking backend (src/app.py, src/models.py).        *)
(*                                                                         *)
(* The store is the three tables of models.py; every HTTP handler of       *)
(* app.py is one action that runs to completion (request in, response      *)
(* out, commit or rollback included).  A second specification,             *)
(* SpecConcurrent, runs the handlers that write the store as the steps     *)
(* each takes against the database, so that requests of several workers    *)
(* interleave.                                                             *)
(*                                                                         *)
(* Units.  Hours entering the system (duration, target_hours) are counted  *)
(* in 256ths of an hour, which binary floating point represents exactly,   *)
(* so sums are exact; one 256th is a duration that round(x, 2) rounds to   *)
(* 0.  Values that round(x, 2) produces are counted in hundredths of an    *)
(* hour, values that round(x, 1) produces in tenths of a percent.  Dates   *)
(* are proleptic Gregorian ordinals (date.toordinal()); a date string      *)
(* "YYYY-MM-DD" is the triple <<y, m, d>> of its fields.                   *)
(*                                                                         *)
(* Left out: the columns name, exam_date, notes, created_at (no handler    *)
(* modelled here branches on a stored value of them), the prompt text,     *)
(* and failures of the store itself.                                       *)
(***************************************************************************)
EXTENDS Integers, Sequences, FiniteSets

(* ---------------------------------------------------------------- bounds *)

\* Largest Module id the model creates.
MaxModuleId == 2

\* Largest Session id the model creates.
MaxSessionId == 2

\* Largest number of Recommendation rows the model stores.
MaxRecs == 1

\* Largest number of requests in flight at once (the workers).
MaxInFlight == 2

(* ------------------------------------------------------- program constants *)

\* validate_date returns None for a string that is no date; ordinals are >= 1.
NoDate == 0

\* The placeholder credential create_recommendation compares with.
Placeholder == "your-api-key-here"

(* ------------------------------------------------------------------ state *)

VARIABLES
    modules,     \* table modules: set of [id, target_hours]
    sessions,    \* table learning_sessions: set of [id, module_id, duration, date]
    recs,        \* table ai_recommendations: number of rows
    apiKey,      \* app.config['GEMINI_API_KEY'], fixed when the app is created
    resp,        \* the last request (its handler, its input) and the response to it
    inflight     \* requests a worker has begun and not answered: [worker, op, pc, ...],
                 \* pc the step that comes next, then what the handler holds in
                 \* local variables and loaded objects

vars == <<modules, sessions, recs, apiKey, resp, inflight>>

(* ---------------------------------------------------------------- helpers *)

SetMax(S) == CHOOSE x \in S : \A y \in S : y <= x

RECURSIVE SetSum(_)
\* sum(...) over a finite set of integers given as a set of [k, v] pairs
SetSum(S) ==
    IF S = {} THEN 0
    ELSE LET e == CHOOSE x \in S : TRUE IN e.v + SetSum(S \ {e})

\* Python's round(): nearest, ties to even; n / d for n >= 0, d > 0.
RoundHalfEven(n, d) ==
    LET q == n \div d
        r == n % d
    IN  IF 2 * r < d THEN q
        ELSE IF 2 * r > d THEN q + 1
        ELSE IF q % 2 = 0 THEN q ELSE q + 1

\* round(total, 2): 256ths of an hour in, hundredths of an hour out.
Round2(total) == RoundHalfEven(100 * total, 256)

\* The id the store gives a new row: SQLite's rowid of an INTEGER PRIMARY KEY,
\* one more than the largest id in the table.
NextId(ids) == IF ids = {} THEN 1 ELSE SetMax(ids) + 1

ModuleIds == {m.id : m \in modules}

SessionIds == {s.id : s \in sessions}

\* Module.query.get(id) / LearningSession.query.get(id); callers test membership first.
ModuleById(id) == CHOOSE m \in modules : m.id = id

SessionById(id) == CHOOSE s \in sessions : s.id = id

(* ------------------------------------------------------------------ dates *)

IsLeap(y) == y % 4 = 0 /\ (y % 100 # 0 \/ y % 400 = 0)

DaysInMonth(y, m) ==
    IF m = 2 THEN (IF IsLeap(y) THEN 29 ELSE 28)
    ELSE IF m \in {4, 6, 9, 11} THEN 30 ELSE 31

RECURSIVE DaysBeforeMonth(_, _)
DaysBeforeMonth(y, m) ==
    IF m = 1 THEN 0 ELSE DaysBeforeMonth(y, m - 1) + DaysInMonth(y, m - 1)

DaysBeforeYear(y) ==
    (y - 1) * 365 + (y - 1) \div 4 - (y - 1) \div 100 + (y - 1) \div 400

\* date(y, m, d).toordinal()
ToOrdinal(y, m, d) == DaysBeforeYear(y) + DaysBeforeMonth(y, m) + d

\* date.weekday(): Monday is 0.
Weekday(ord) == (ord + 6) % 7

\* datetime.strptime(s, '%Y-%m-%d').date(), None when s is no calendar date.
validate_date(s) ==
    IF s[1] \in 1..9999 /\ s[2] \in 1..12 /\ s[3] \in 1..DaysInMonth(s[1], s[2])
    THEN ToOrdinal(s[1], s[2], s[3])
    ELSE NoDate

(* ------------------------------------------------- floating point numbers *)

\* A Python float is [m, e]: the number m * 2^e.  m is a natural number of
\* at most Mantissa + 1 binary digits, written as its digits to the base
\* Base, most significant first and the first not 0.  Only positive numbers
\* far from overflow and underflow occur.

\* Binary digits of a float's significand.
Mantissa == 53

\* Binary digits of one digit of a long number.
DigitBits == 15

Base == 2 ^ DigitBits

RECURSIVE Digits(_)
\* The digits of n >= 0; none for 0.
Digits(n) == IF n = 0 THEN <<>> ELSE Append(Digits(n \div Base), n % Base)

Zeros(k) == [i \in 1..k |-> 0]

\* b without its leading zeros.
Strip(b) ==
    IF \A i \in 1..Len(b) : b[i] = 0 THEN <<>>
    ELSE LET f == CHOOSE i \in 1..Len(b) :
                      b[i] # 0 /\ \A j \in 1..(i - 1) : b[j] = 0
         IN  SubSeq(b, f, Len(b))

RECURSIVE DivDigits(_, _)
\* b divided by the integer d, 0 < d <= Base: quotient digits and remainder.
DivDigits(b, d) ==
    IF b = <<>> THEN [q |-> <<>>, r |-> 0]
    ELSE LET p == DivDigits(SubSeq(b, 1, Len(b) - 1), d)
             n == Base * p.r + b[Len(b)]
         IN  [q |-> Append(p.q, n \div d), r |-> n % d]

RECURSIVE MulAdd(_, _, _)
\* b * k + c for integers 0 < k <= Base, 0 <= c <= k.
MulAdd(b, k, c) ==
    IF b = <<>> THEN Digits(c)
    ELSE LET n == b[Len(b)] * k + c
             h == MulAdd(SubSeq(b, 1, Len(b) - 1), k, n \div Base)
         IN  Append(h, n % Base)

\* b * 2^k
ShiftLeft(b, k) == MulAdd(b, 2 ^ (k % DigitBits), 0) \o Zeros(k \div DigitBits)

\* -1, 0, 1 as a < b, a = b, a > b; neither has leading zeros.
CmpDigits(a, b) ==
    IF Len(a) # Len(b) THEN (IF Len(a) < Len(b) THEN -1 ELSE 1)
    ELSE IF a = b THEN 0
    ELSE LET i == CHOOSE i \in 1..Len(a) :
                      a[i] # b[i] /\ \A j \in 1..(i - 1) : a[j] = b[j]
         IN  IF a[i] < b[i] THEN -1 ELSE 1

\* The number of binary digits of b # 0, b without leading zeros.
BitLen(b) ==
    DigitBits * (Len(b) - 1)
        + (CHOOSE k \in 1..DigitBits : 2 ^ (k - 1) <= b[1] /\ b[1] < 2 ^ k)

\* The float nearest to b * 2^e (ties to even), b without leading zeros;
\* inexact says the number is a little more than b * 2^e.
RoundToFloat(b, e, inexact) ==
    IF b = <<>> \/ BitLen(b) <= Mantissa THEN [m |-> b, e |-> e]
    ELSE LET drop == BitLen(b) - Mantissa
             w    == drop \div DigitBits
             s    == drop % DigitBits
             d    == DivDigits(SubSeq(b, 1, Len(b) - w), 2 ^ s)
             \* twice the dropped digits against 2^drop
             half == CmpDigits(Strip(MulAdd(<<d.r>> \o SubSeq(b, Len(b) - w + 1, Len(b)), 2, 0)),
                               <<2 ^ s>> \o Zeros(w))
             q    == Strip(d.q)
             up   == half > 0 \/ (half = 0 /\ (inexact \/ q[Len(q)] % 2 = 1))
         IN  [m |-> IF up THEN MulAdd(q, 1, 1) ELSE q, e |-> e + drop]

\* x / d for a float x and an integer d, 0 < d <= Base.  The dividend gets
\* further digits, enough to make the quotient longer than a significand.
FloatDiv(x, d) ==
    LET p == DivDigits(x.m \o Zeros(5), d)
    IN  RoundToFloat(Strip(p.q), x.e - 5 * DigitBits, p.r # 0)

\* x * k for a float x and an integer k, 0 < k <= Base.
FloatMul(x, k) == RoundToFloat(Strip(MulAdd(x.m, k, 0)), x.e, FALSE)

\* -1, 0, 1 as the float x is below, at, above the fraction n / d,
\* 0 < d <= Base.
FloatCmp(x, n, d) ==
    CmpDigits(Strip(ShiftLeft(MulAdd(x.m, d, 0), IF x.e > 0 THEN x.e ELSE 0)),
              Strip(ShiftLeft(Digits(n), IF x.e < 0 THEN 0 - x.e ELSE 0)))

\* round((actual / target) * 100, 1) in tenths of a percent, for actual in
\* hundredths of an hour (the float nearest to that decimal) and target in
\* 256ths of an hour, 0 < target <= Base.  The three float operations err
\* by less than one part in 10^15, and a quotient 2560 * actual / target
\* that is no tie is at least 1 / (2 * target) away from one, so off the
\* ties the float rounds as the exact quotient does; on a tie the float is
\* compared with the tie (round() rounds the float's exact value, an exact
\* tie to even).
RoundProgress(actual, target) ==
    IF (5120 * actual) % target # 0 \/ ((5120 * actual) \div target) % 2 = 0
    THEN RoundHalfEven(2560 * actual, target)
    ELSE LET a == FloatDiv([m |-> Digits(actual), e |-> 0], 100)
             q == FloatDiv([m |-> a.m, e |-> a.e + 8], target)
             p == FloatMul(q, 100)
             c == FloatCmp(p, 256 * actual, target)
             n == (2560 * actual) \div target
         IN  IF c < 0 THEN n
             ELSE IF c > 0 THEN n + 1
             ELSE IF n % 2 = 0 THEN n ELSE n + 1

(* --------------------------------------------------------- derived fields *)

\* Module.sessions: the Sessions whose module_id is this Module's id.
ModuleSessions(id) == {s \in sessions : s.module_id = id}

\* calculate_total_hours(sessions)
calculate_total_hours(ss) ==
    Round2(SetSum({[k |-> s.id, v |-> s.duration] : s \in ss}))

\* Mutant of get_actual_hours: the Sessions of every Module are summed.
get_actual_hours_all(id) ==
    Round2(SetSum({[k |-> s.id, v |-> s.duration] : s \in sessions}))

\* Module.get_actual_hours()
get_actual_hours(id) ==
    Round2(SetSum({[k |-> s.id, v |-> s.duration] : s \in ModuleSessions(id)}))

\* Module.get_progress_percentage(), in tenths of a percent
get_progress_percentage(m) ==
    IF m.target_hours = 0 THEN 0
    ELSE RoundProgress(get_actual_hours(m.id), m.target_hours)

\* Module.to_dict(): the fields the claims read.
ModuleDict(m) ==
    [id |-> m.id, target_hours |-> m.target_hours,
     actual_hours |-> get_actual_hours(m.id),
     progress_percentage |-> get_progress_percentage(m)]

(* --------------------------------------------------------------- requests *)

\* request.get_json() that yields None (a body of null).
NoneBody == [null |-> TRUE]

IsNone(data) == "null" \in DOMAIN data

\* Date strings of the Sessions the model stores: a Tuesday and the Thursday
\* after it, the first day of the next month.  <<2024, 2, 30>> is the date
\* string the handlers reject.
GoodDates == {<<2024, 1, 30>>, <<2024, 2, 1>>}

\* Values of date.today() the dashboard is asked on.
Todays == {<<2024, 1, 30>>, <<2024, 1, 31>>, <<2024, 2, 1>>, <<2024, 2, 5>>}

\* target_hours of request bodies, in 256ths of an hour: -1 h, 0 h, 2 h.
TargetValues == {-256, 0, 512}

\* Ids a request can address: every id the model creates, and one beyond.
ModuleIdValues == 1..(MaxModuleId + 1)

SessionIdValues == 1..(MaxSessionId + 1)

\* Bodies of POST /api/modules.
ModuleBodies ==
    {NoneBody, <<>>, [name |-> "Mathe"], [target_hours |-> 512]}
    \cup {[name |-> "Mathe", target_hours |-> t] : t \in TargetValues}
    \cup {[name |-> "Mathe", target_hours |-> 512, exam_date |-> d] :
            d \in {<<2024, 2, 1>>, <<2024, 2, 30>>}}

\* Bodies of POST /api/sessions: null, bodies lacking a field, and bodies
\* with every field, among them ones whose duration, module_id or date (or
\* several of them) the handler rejects.  Durations are in 256ths of an
\* hour: 1 is a duration that rounds to 0.0 h, 32 is 0.125 h, 128 is 0.5 h.
SessionBodies ==
    {NoneBody,
     [duration |-> 128, date |-> <<2024, 2, 1>>],
     [duration |-> 0, date |-> <<2024, 2, 1>>],
     [module_id |-> 1, date |-> <<2024, 2, 1>>],
     [module_id |-> 1, duration |-> 128],
     [module_id |-> MaxModuleId + 1, duration |-> 128]}
    \cup {[module_id |-> m, duration |-> d, date |-> dt] :
            m \in ModuleIdValues, d \in {1, 32}, dt \in GoodDates}
    \cup {[module_id |-> m, duration |-> d, date |-> <<2024, 2, 1>>] :
            m \in ModuleIdValues, d \in {-32, 0}}
    \cup {[module_id |-> m, duration |-> d, date |-> <<2024, 2, 30>>] :
            m \in ModuleIdValues, d \in {0, 128}}

\* Query strings of GET /api/sessions: no limit (or one that is no integer),
\* or limit=n.
SessionArgs == {<<>>} \cup {[limit |-> n] : n \in 0..MaxSessionId}

\* Values of the GEMINI_API_KEY environment variable.
ApiKeys == {"", Placeholder, "key-1"}

\* What model.generate_content does: returns text, returns no text, raises.
ServiceOutcomes == {"text", "empty", "error"}

(* ------------------------------------------------------------------- Init *)

Init ==
    /\ modules = {}
    /\ sessions = {}
    /\ recs = 0
    /\ apiKey \in ApiKeys
    /\ resp = [op |-> "none", status |-> 0]
    /\ inflight = {}

(* ------------------------------------------------------ Module management *)

\* POST /api/modules
create_module(data) ==
    IF IsNone(data) \/ DOMAIN data = {}
       \/ "name" \notin DOMAIN data \/ "target_hours" \notin DOMAIN data
    THEN /\ resp' = [op |-> "create_module", status |-> 400,
                     error |-> "Name und target_hours sind erforderlich"]
         /\ UNCHANGED <<modules, sessions, recs, apiKey, inflight>>
    ELSE IF data.target_hours < 0
    THEN /\ resp' = [op |-> "create_module", status |-> 400,
                     error |-> "target_hours darf nicht negativ sein"]
         /\ UNCHANGED <<modules, sessions, recs, apiKey, inflight>>
    ELSE IF "exam_date" \in DOMAIN data /\ validate_date(data.exam_date) = NoDate
    THEN /\ resp' = [op |-> "create_module", status |-> 400,
                     error |-> "Ungueltiges Datumsformat. Nutze YYYY-MM-DD"]
         /\ UNCHANGED <<modules, sessions, recs, apiKey, inflight>>
    ELSE LET module == [id |-> NextId(ModuleIds), target_hours |-> data.target_hours]
         IN  /\ module.id <= MaxModuleId
             /\ modules' = modules \cup {module}
             /\ resp' = [op |-> "create_module", status |-> 201,
                         body |-> ModuleDict(module)]
             /\ UNCHANGED <<sessions, recs, apiKey, inflight>>

\* GET /api/modules
get_modules ==
    /\ resp' = [op |-> "get_modules", status |-> 200,
                body |-> {ModuleDict(m) : m \in modules}]
    /\ UNCHANGED <<modules, sessions, recs, apiKey, inflight>>

\* GET /api/modules/<id>.  get_or_404 aborts with NotFound inside the try
\* block; NotFound is an Exception, so `except Exception` answers 500.
get_module(module_id) ==
    IF module_id \notin ModuleIds
    THEN /\ resp' = [op |-> "get_module", status |-> 500, id |-> module_id]
         /\ UNCHANGED <<modules, sessions, recs, apiKey, inflight>>
    ELSE /\ resp' = [op |-> "get_module", status |-> 200, id |-> module_id,
                     body |-> ModuleDict(ModuleById(module_id)),
                     sessions |-> ModuleSessions(module_id)]
         /\ UNCHANGED <<modules, sessions, recs, apiKey, inflight>>

\* Mutant of CascadeDeleted: the relationship without its cascade.
CascadeDeleted_none(module_id) == {}

\* cascade='all, delete-orphan': the Sessions db.session.delete(module) deletes
\* with the Module.
CascadeDeleted(module_id) == ModuleSessions(module_id)

\* DELETE /api/modules/<id>
delete_module(module_id) ==
    IF module_id \notin ModuleIds
    THEN /\ resp' = [op |-> "delete_module", status |-> 500, id |-> module_id]
         /\ UNCHANGED <<modules, sessions, recs, apiKey, inflight>>
    ELSE /\ modules' = modules \ {ModuleById(module_id)}
         /\ sessions' = sessions \ CascadeDeleted(module_id)
         /\ resp' = [op |-> "delete_module", status |-> 200, id |-> module_id]
         /\ UNCHANGED <<recs, apiKey, inflight>>

(* ----------------------------------------------------- Session management *)

\* The first of required_fields that is not in data, "" when all are.
MissingField(data) ==
    IF "module_id" \notin DOMAIN data THEN "module_id"
    ELSE IF "duration" \notin DOMAIN data THEN "duration"
    ELSE IF "date" \notin DOMAIN data THEN "date"
    ELSE ""

\* Mutant of DurationRejected: only a negative duration is rejected.
DurationRejected_negative(duration) == duration < 0

\* data['duration'] <= 0
DurationRejected(duration) == duration <= 0

\* Mutant of ModuleMissing: the existence check is skipped.
ModuleMissing_never(module_id) == FALSE

\* not Module.query.get(data['module_id'])
ModuleMissing(module_id) == module_id \notin ModuleIds

\* POST /api/sessions.  With data None, `field not in data` raises TypeError,
\* which `except Exception` answers with 500.
create_session(data) ==
    IF IsNone(data)
    THEN /\ resp' = [op |-> "create_session", data |-> data, status |-> 500,
                     error |-> "TypeError"]
         /\ UNCHANGED <<modules, sessions, recs, apiKey, inflight>>
    ELSE IF MissingField(data) # ""
    THEN /\ resp' = [op |-> "create_session", data |-> data, status |-> 400,
                     error |-> "ist erforderlich", field |-> MissingField(data)]
         /\ UNCHANGED <<modules, sessions, recs, apiKey, inflight>>
    ELSE IF DurationRejected(data.duration)
    THEN /\ resp' = [op |-> "create_session", data |-> data, status |-> 400,
                     error |-> "duration muss groesser als 0 sein"]
         /\ UNCHANGED <<modules, sessions, recs, apiKey, inflight>>
    ELSE IF ModuleMissing(data.module_id)
    THEN /\ resp' = [op |-> "create_session", data |-> data, status |-> 404,
                     error |-> "Modul nicht gefunden"]
         /\ UNCHANGED <<modules, sessions, recs, apiKey, inflight>>
    ELSE IF validate_date(data.date) = NoDate
    THEN /\ resp' = [op |-> "create_session", data |-> data, status |-> 400,
                     error |-> "Ungueltiges Datumsformat. Nutze YYYY-MM-DD"]
         /\ UNCHANGED <<modules, sessions, recs, apiKey, inflight>>
    ELSE LET session == [id |-> NextId(SessionIds), module_id |-> data.module_id,
                         duration |-> data.duration,
                         date |-> validate_date(data.date)]
         IN  /\ session.id <= MaxSessionId
             /\ sessions' = sessions \cup {session}
             /\ resp' = [op |-> "create_session", data |-> data, status |-> 201,
                         body |-> session]
             /\ UNCHANGED <<modules, recs, apiKey, inflight>>

\* order_by(LearningSession.date.desc()).all(): the orders the store may
\* return the rows in; rows of one date come in any order.
DateDescOrders ==
    {f \in [1..Cardinality(sessions) -> sessions] :
        /\ \A i, j \in DOMAIN f : i # j => f[i] # f[j]
        /\ \A i, j \in DOMAIN f : i < j => f[i].date >= f[j].date}

\* Mutant of Limited: the limit is off by one.
Limited_plus_one(rows, args) ==
    IF "limit" \in DOMAIN args /\ args.limit # 0
    THEN IF args.limit > 0 /\ args.limit + 1 < Len(rows)
         THEN SubSeq(rows, 1, args.limit + 1)
         ELSE rows
    ELSE rows

\* The rows the query yields from the ordered rows: `if limit:` applies
\* LIMIT for an integer other than 0.  (A negative LIMIT is the store's to
\* read; SQLite, the default DATABASE_URL, reads it as no limit.)
Limited(rows, args) ==
    IF "limit" \in DOMAIN args /\ args.limit # 0
    THEN IF args.limit > 0 /\ args.limit < Len(rows)
         THEN SubSeq(rows, 1, args.limit)
         ELSE rows
    ELSE rows

\* GET /api/sessions
get_sessions(args) ==
    /\ \E rows \in DateDescOrders :
          resp' = [op |-> "get_sessions", status |-> 200, args |-> args,
                   body |-> Limited(rows, args)]
    /\ UNCHANGED <<modules, sessions, recs, apiKey, inflight>>

\* The response of DELETE /api/sessions/<id>.  As in get_module, the
\* NotFound that get_or_404 raises is caught by `except Exception`: 500.
delete_session_response(session_id) ==
    [op |-> "delete_session", id |-> session_id,
     status |-> IF session_id \notin SessionIds THEN 500 ELSE 200]

\* DELETE /api/sessions/<id>
delete_session(session_id) ==
    /\ resp' = delete_session_response(session_id)
    /\ sessions' = IF session_id \notin SessionIds THEN sessions
                   ELSE sessions \ {SessionById(session_id)}
    /\ UNCHANGED <<modules, recs, apiKey, inflight>>

(* ------------------------------------------------------ AI recommendation *)

\* Mutant of CredentialMissing: the placeholder counts as a credential.
CredentialMissing_empty_only(key) == key = ""

\* not GEMINI_API_KEY or GEMINI_API_KEY == 'your-api-key-here'
CredentialMissing(key) == key = "" \/ key = Placeholder

\* Mutant of NoModules: the check for Modules is skipped.
NoModules_never == FALSE

\* not Module.query.all()
NoModules == modules = {}

\* POST /api/recommend.  `called` tells whether generate_content was called.
create_recommendation(outcome) ==
    IF CredentialMissing(apiKey)
    THEN /\ resp' = [op |-> "create_recommendation", status |-> 503,
                     called |-> FALSE]
         /\ UNCHANGED <<modules, sessions, recs, apiKey, inflight>>
    ELSE IF NoModules
    THEN /\ resp' = [op |-> "create_recommendation", status |-> 400,
                     called |-> FALSE]
         /\ UNCHANGED <<modules, sessions, recs, apiKey, inflight>>
    ELSE IF outcome # "text"
    THEN /\ resp' = [op |-> "create_recommendation", status |-> 500,
                     called |-> TRUE]
         /\ UNCHANGED <<modules, sessions, recs, apiKey, inflight>>
    ELSE /\ recs < MaxRecs
         /\ recs' = recs + 1
         /\ resp' = [op |-> "create_recommendation", status |-> 201,
                     called |-> TRUE]
         /\ UNCHANGED <<modules, sessions, apiKey, inflight>>

\* GET /api/recommend
get_recommendation ==
    /\ resp' = [op |-> "get_recommendation",
                status |-> IF recs = 0 THEN 404 ELSE 200]
    /\ UNCHANGED <<modules, sessions, recs, apiKey, inflight>>

(* -------------------------------------------------------------- Dashboard *)

\* Mutant of get_sessions_by_date_range: the end of the range is exclusive.
get_sessions_by_date_range_exclusive(start_date, end_date) ==
    {s \in sessions : s.date >= start_date /\ s.date < end_date}

\* get_sessions_by_date_range(start_date, end_date)
get_sessions_by_date_range(start_date, end_date) ==
    {s \in sessions : s.date >= start_date /\ s.date <= end_date}

\* GET /api/dashboard, date.today() being the date `now`
get_dashboard(now) ==
    LET today == ToOrdinal(now[1], now[2], now[3])
        week_start == today - Weekday(today)
        month_start == ToOrdinal(now[1], now[2], 1)
        today_sessions == get_sessions_by_date_range(today, today)
        week_sessions == get_sessions_by_date_range(week_start, today)
        month_sessions == get_sessions_by_date_range(month_start, today)
    IN  /\ resp' = [op |-> "get_dashboard", status |-> 200, today |-> now,
                    hours_today |-> calculate_total_hours(today_sessions),
                    hours_week |-> calculate_total_hours(week_sessions),
                    hours_month |-> calculate_total_hours(month_sessions),
                    sessions_today |-> Cardinality(today_sessions),
                    sessions_week |-> Cardinality(week_sessions),
                    total_modules |-> Cardinality(modules)]
        /\ UNCHANGED <<modules, sessions, recs, apiKey, inflight>>

(* ---------------------------------------------------------- specification *)

Next ==
    \/ \E data \in ModuleBodies : create_module(data)
    \/ get_modules
    \/ \E id \in ModuleIdValues : get_module(id)
    \/ \E id \in ModuleIdValues : delete_module(id)
    \/ \E data \in SessionBodies : create_session(data)
    \/ \E args \in SessionArgs : get_sessions(args)
    \/ \E id \in SessionIdValues : delete_session(id)
    \/ \E outcome \in ServiceOutcomes : create_recommendation(outcome)
    \/ get_recommendation
    \/ \E now \in Todays : get_dashboard(now)

Spec == Init /\ [][Next]_vars

(* ------------------------------------------------- interleaved requests *)

\* Each worker serves one request at a time, with a database session of its
\* own.  A handler that writes the store is a sequence of steps, one for each
\* round trip to the database that another worker's commit can fall between:
\* a SELECT (a lookup, a lazy load, the reload of an object that a commit
\* has expired) or a flush with its COMMIT.  The store is SQLite, the default
\* DATABASE_URL: a SELECT reads what is committed and holds nothing
\* afterwards, a flush and its COMMIT are one write transaction, and foreign
\* keys are not enforced (no PRAGMA foreign_keys in src/).  A DELETE that
\* finds its row gone is a warning of the mapper, not an error.

Workers == 1..MaxInFlight

Idle(w) == w \notin {p.worker : p \in inflight}

\* Bodies of POST /api/modules sent while other requests are in flight.
ConcurrentModuleBodies ==
    {NoneBody, [name |-> "Mathe", target_hours |-> 512]}

\* Bodies of POST /api/sessions sent while other requests are in flight.
ConcurrentBodies ==
    {NoneBody}
    \cup {[module_id |-> m, duration |-> d, date |-> <<2024, 2, 1>>] :
            m \in ModuleIdValues, d \in {0, 128}}

\* The checks of create_module before the insert reject this body.
ModuleRejected(data) ==
    \/ IsNone(data)
    \/ "name" \notin DOMAIN data
    \/ "target_hours" \notin DOMAIN data
    \/ data.target_hours < 0
    \/ ("exam_date" \in DOMAIN data /\ validate_date(data.exam_date) = NoDate)

\* create_module to its commit: the checks, db.session.add, db.session.commit.
create_module_insert(w, data) ==
    /\ Idle(w)
    /\ IF ModuleRejected(data)
       THEN create_module(data)
       ELSE LET module == [id |-> NextId(ModuleIds),
                           target_hours |-> data.target_hours]
            IN  /\ module.id <= MaxModuleId
                /\ modules' = modules \cup {module}
                /\ inflight' = inflight \cup
                      {[worker |-> w, op |-> "create_module", pc |-> "reload",
                        id |-> module.id]}
                /\ UNCHANGED <<sessions, recs, apiKey, resp>>

\* create_module, the log line: module.name reloads the Module the commit
\* has expired, by its id.  With no such row the reload raises, which
\* `except Exception` answers with 500.
create_module_reload(p) ==
    /\ p \in inflight /\ p.op = "create_module" /\ p.pc = "reload"
    /\ IF p.id \notin ModuleIds
       THEN /\ resp' = [op |-> "create_module", status |-> 500,
                        error |-> "ObjectDeletedError"]
            /\ inflight' = inflight \ {p}
       ELSE /\ inflight' = (inflight \ {p}) \cup
                  {[worker |-> p.worker, op |-> "create_module", pc |-> "to_dict",
                    id |-> p.id, target_hours |-> ModuleById(p.id).target_hours]}
            /\ UNCHANGED resp
    /\ UNCHANGED <<modules, sessions, recs, apiKey>>

\* create_module, the answer: to_dict loads module.sessions for actual_hours.
create_module_answer(p) ==
    /\ p \in inflight /\ p.op = "create_module" /\ p.pc = "to_dict"
    /\ resp' = [op |-> "create_module", status |-> 201,
                body |-> ModuleDict([id |-> p.id, target_hours |-> p.target_hours])]
    /\ inflight' = inflight \ {p}
    /\ UNCHANGED <<modules, sessions, recs, apiKey>>

\* The checks of create_session before the insert reject this body.
Rejected(data) ==
    \/ IsNone(data)
    \/ MissingField(data) # ""
    \/ DurationRejected(data.duration)
    \/ ModuleMissing(data.module_id)
    \/ validate_date(data.date) = NoDate

\* create_session to the end of its checks, Module.query.get among them.
create_session_check(w, data) ==
    /\ Idle(w)
    /\ IF Rejected(data)
       THEN create_session(data)
       ELSE /\ inflight' = inflight \cup
                  {[worker |-> w, op |-> "create_session", pc |-> "insert",
                    data |-> data]}
            /\ UNCHANGED <<modules, sessions, recs, apiKey, resp>>

\* create_session: db.session.add, db.session.commit.  The row is written
\* whether or not the Module is still stored.
create_session_insert(p) ==
    LET session == [id |-> NextId(SessionIds), module_id |-> p.data.module_id,
                    duration |-> p.data.duration,
                    date |-> validate_date(p.data.date)]
    IN  /\ p \in inflight /\ p.op = "create_session" /\ p.pc = "insert"
        /\ session.id <= MaxSessionId
        /\ sessions' = sessions \cup {session}
        /\ inflight' = (inflight \ {p}) \cup
              {[worker |-> p.worker, op |-> "create_session", pc |-> "reload",
                data |-> p.data, id |-> session.id]}
        /\ UNCHANGED <<modules, recs, apiKey, resp>>

\* create_session, the log line: session.duration reloads the Session the
\* commit has expired, by its id.
create_session_reload(p) ==
    /\ p \in inflight /\ p.op = "create_session" /\ p.pc = "reload"
    /\ IF p.id \notin SessionIds
       THEN /\ resp' = [op |-> "create_session", data |-> p.data, status |-> 500,
                        error |-> "ObjectDeletedError"]
            /\ inflight' = inflight \ {p}
       ELSE /\ inflight' = (inflight \ {p}) \cup
                  {[worker |-> p.worker, op |-> "create_session", pc |-> "module",
                    data |-> p.data, row |-> SessionById(p.id)]}
            /\ UNCHANGED resp
    /\ UNCHANGED <<modules, sessions, recs, apiKey>>

\* create_session, the log line: module.name reloads the Module the check
\* found; then the answer, session.to_dict().  to_dict reads session.module,
\* which is that Module unless the reloaded row names another one (the id
\* of a deleted Session is given out again): then it is one more load.
create_session_answer(p) ==
    /\ p \in inflight /\ p.op = "create_session" /\ p.pc = "module"
    /\ IF p.data.module_id \notin ModuleIds
       THEN /\ resp' = [op |-> "create_session", data |-> p.data, status |-> 500,
                        error |-> "ObjectDeletedError"]
            /\ inflight' = inflight \ {p}
       ELSE IF p.row.module_id = p.data.module_id
       THEN /\ resp' = [op |-> "create_session", data |-> p.data, status |-> 201,
                        body |-> p.row]
            /\ inflight' = inflight \ {p}
       ELSE /\ inflight' = (inflight \ {p}) \cup
                  {[worker |-> p.worker, op |-> "create_session", pc |-> "to_dict",
                    data |-> p.data, row |-> p.row]}
            /\ UNCHANGED resp
    /\ UNCHANGED <<modules, sessions, recs, apiKey>>

\* create_session, session.to_dict() loading session.module by the row's
\* module_id: the Module's name or None goes into the answer.
create_session_to_dict(p) ==
    /\ p \in inflight /\ p.op = "create_session" /\ p.pc = "to_dict"
    /\ resp' = [op |-> "create_session", data |-> p.data, status |-> 201,
                body |-> p.row]
    /\ inflight' = inflight \ {p}
    /\ UNCHANGED <<modules, sessions, recs, apiKey>>

\* delete_module: Module.query.get_or_404.
delete_module_lookup(w, module_id) ==
    /\ Idle(w)
    /\ IF module_id \notin ModuleIds
       THEN delete_module(module_id)
       ELSE /\ inflight' = inflight \cup
                  {[worker |-> w, op |-> "delete_module", pc |-> "cascade",
                    id |-> module_id]}
            /\ UNCHANGED <<modules, sessions, recs, apiKey, resp>>

\* delete_module: db.session.delete(module) loads module.sessions, the
\* Sessions to delete with the Module.
delete_module_cascade(p) ==
    /\ p \in inflight /\ p.op = "delete_module" /\ p.pc = "cascade"
    /\ inflight' = (inflight \ {p}) \cup
          {[worker |-> p.worker, op |-> "delete_module", pc |-> "commit",
            id |-> p.id, cascade |-> {s.id : s \in CascadeDeleted(p.id)}]}
    /\ UNCHANGED <<modules, sessions, recs, apiKey, resp>>

\* delete_module: db.session.commit deletes the loaded Sessions and the
\* Module, each by its id; then the answer.
delete_module_commit(p) ==
    /\ p \in inflight /\ p.op = "delete_module" /\ p.pc = "commit"
    /\ modules' = {m \in modules : m.id # p.id}
    /\ sessions' = {s \in sessions : s.id \notin p.cascade}
    /\ resp' = [op |-> "delete_module", status |-> 200, id |-> p.id]
    /\ inflight' = inflight \ {p}
    /\ UNCHANGED <<recs, apiKey>>

\* delete_session: LearningSession.query.get_or_404.
delete_session_lookup(w, session_id) ==
    /\ Idle(w)
    /\ IF session_id \notin SessionIds
       THEN delete_session(session_id)
       ELSE /\ inflight' = inflight \cup
                  {[worker |-> w, op |-> "delete_session", pc |-> "commit",
                    id |-> session_id]}
            /\ UNCHANGED <<modules, sessions, recs, apiKey, resp>>

\* delete_session: db.session.delete, db.session.commit, the answer.
delete_session_commit(p) ==
    /\ p \in inflight /\ p.op = "delete_session" /\ p.pc = "commit"
    /\ sessions' = {s \in sessions : s.id # p.id}
    /\ resp' = [op |-> "delete_session", id |-> p.id, status |-> 200]
    /\ inflight' = inflight \ {p}
    /\ UNCHANGED <<modules, recs, apiKey>>

\* create_recommendation to the check of Module.query.all(); `loads` are
\* the Modules it returned whose Sessions the prompt has yet to load.
create_recommendation_check(w) ==
    /\ Idle(w)
    /\ IF CredentialMissing(apiKey) \/ NoModules
       THEN \E outcome \in ServiceOutcomes : create_recommendation(outcome)
       ELSE /\ inflight' = inflight \cup
                  {[worker |-> w, op |-> "create_recommendation", pc |-> "prompt",
                    loads |-> ModuleIds]}
            /\ UNCHANGED <<modules, sessions, recs, apiKey, resp>>

\* create_recommendation, the prompt: module.get_actual_hours() loads
\* module.sessions, for one Module of the list after the other (in the
\* order of their ids, the order SQLite scans the table in).  What it reads
\* goes into the prompt only.
create_recommendation_load(p) ==
    /\ p \in inflight /\ p.op = "create_recommendation" /\ p.pc = "prompt"
    /\ LET rest == p.loads \ {CHOOSE id \in p.loads : \A other \in p.loads : id <= other}
       IN  inflight' = (inflight \ {p}) \cup
              {IF rest = {}
               THEN [worker |-> p.worker, op |-> "create_recommendation",
                     pc |-> "call"]
               ELSE [worker |-> p.worker, op |-> "create_recommendation",
                     pc |-> "prompt", loads |-> rest]}
    /\ UNCHANGED <<modules, sessions, recs, apiKey, resp>>

\* create_recommendation: model.generate_content and the check of its text;
\* without a text the handler raises, which `except Exception` answers
\* with 500.
create_recommendation_call(p, outcome) ==
    /\ p \in inflight /\ p.op = "create_recommendation" /\ p.pc = "call"
    /\ IF outcome # "text"
       THEN /\ resp' = [op |-> "create_recommendation", status |-> 500,
                        called |-> TRUE]
            /\ inflight' = inflight \ {p}
       ELSE /\ inflight' = (inflight \ {p}) \cup
                  {[worker |-> p.worker, op |-> "create_recommendation",
                    pc |-> "insert"]}
            /\ UNCHANGED resp
    /\ UNCHANGED <<modules, sessions, recs, apiKey>>

\* create_recommendation: db.session.add, db.session.commit.
create_recommendation_insert(p) ==
    /\ p \in inflight /\ p.op = "create_recommendation" /\ p.pc = "insert"
    /\ recs < MaxRecs
    /\ recs' = recs + 1
    /\ inflight' = (inflight \ {p}) \cup
          {[worker |-> p.worker, op |-> "create_recommendation", pc |-> "reload"]}
    /\ UNCHANGED <<modules, sessions, apiKey, resp>>

\* create_recommendation, the log line and the answer: recommendation.id
\* reloads the row; no handler deletes a row of ai_recommendations.
create_recommendation_answer(p) ==
    /\ p \in inflight /\ p.op = "create_recommendation" /\ p.pc = "reload"
    /\ resp' = [op |-> "create_recommendation", status |-> 201, called |-> TRUE]
    /\ inflight' = inflight \ {p}
    /\ UNCHANGED <<modules, sessions, recs, apiKey>>

\* The handlers that write the store, served by the workers step by step.
NextConcurrent ==
    \/ \E w \in Workers, data \in ConcurrentModuleBodies : create_module_insert(w, data)
    \/ \E p \in inflight : create_module_reload(p)
    \/ \E p \in inflight : create_module_answer(p)
    \/ \E w \in Workers, data \in ConcurrentBodies : create_session_check(w, data)
    \/ \E p \in inflight : create_session_insert(p)
    \/ \E p \in inflight : create_session_reload(p)
    \/ \E p \in inflight : create_session_answer(p)
    \/ \E p \in inflight : create_session_to_dict(p)
    \/ \E w \in Workers, id \in ModuleIdValues : delete_module_lookup(w, id)
    \/ \E p \in inflight : delete_module_cascade(p)
    \/ \E p \in inflight : delete_module_commit(p)
    \/ \E w \in Workers, id \in SessionIdValues : delete_session_lookup(w, id)
    \/ \E p \in inflight : delete_session_commit(p)
    \/ \E w \in Workers : create_recommendation_check(w)
    \/ \E p \in inflight : create_recommendation_load(p)
    \/ \E p \in inflight, outcome \in ServiceOutcomes : create_recommendation_call(p, outcome)
    \/ \E p \in inflight : create_recommendation_insert(p)
    \/ \E p \in inflight : create_recommendation_answer(p)

SpecConcurrent == Init /\ [][NextConcurrent]_vars

(* ----------------------------------------------------------------- claims *)

\* Sum of the durations of a set of Sessions, in 256ths of an hour.
SumDurations(ss) == SetSum({[k |-> s.id, v |-> s.duration] : s \in ss})

\* C1: after any sequence of Module and Session requests, every stored
\* Session's module_id is the id of a stored Module.
C1_SessionModuleLive ==
    \A s \in sessions : \E m \in modules : m.id = s.module_id

\* C1 witness: a Module has been deleted and Sessions (of another Module)
\* are still stored.
C1_Witness ==
    /\ resp.op = "delete_module" /\ resp.status = 200
    /\ sessions # {}

\* C2: a successful Delete of Module m removes m and exactly the Sessions
\* of m, and a request addressing one of those Session ids then reports
\* NotFound (404).
C2_DeleteCascadesThenNotFound ==
    [][(resp'.op = "delete_module" /\ resp'.status = 200) =>
          LET gone == {s \in sessions : s.module_id = resp'.id}
          IN  /\ modules' = {m \in modules : m.id # resp'.id}
              /\ sessions' = sessions \ gone
              /\ \A s \in gone : (delete_session_response(s.id).status)' = 404
      ]_vars

\* C2, the part about the store alone: the Module and exactly its Sessions
\* are removed, and none of the removed Session ids is stored afterwards.
C2_RemovesExactly ==
    [][(resp'.op = "delete_module" /\ resp'.status = 200) =>
          LET gone == {s \in sessions : s.module_id = resp'.id}
          IN  /\ modules' = {m \in modules : m.id # resp'.id}
              /\ sessions' = sessions \ gone
              /\ \A s \in gone : s.id \notin SessionIds'
      ]_vars

\* C3: Get Module, Delete Module and Delete Session with an id that is not
\* stored respond 404 and leave the store unchanged.
C3_UnknownIdIs404 ==
    [][/\ (resp'.op \in {"get_module", "delete_module"}
             /\ resp'.id \notin {m.id : m \in modules})
          => (resp'.status = 404 /\ UNCHANGED <<modules, sessions, recs>>)
       /\ (resp'.op = "delete_session"
             /\ resp'.id \notin {s.id : s \in sessions})
          => (resp'.status = 404 /\ UNCHANGED <<modules, sessions, recs>>)
      ]_vars

\* C3, the part that holds: such a request leaves the store unchanged.
C3_UnknownIdKeepsStore ==
    [][/\ (resp'.op \in {"get_module", "delete_module"}
             /\ resp'.id \notin {m.id : m \in modules})
          => UNCHANGED <<modules, sessions, recs>>
       /\ (resp'.op = "delete_session"
             /\ resp'.id \notin {s.id : s \in sessions})
          => UNCHANGED <<modules, sessions, recs>>
      ]_vars

\* C4 as claimed: creating a Session whose module_id names no stored
\* Module yields 404 and stores no row, whatever the other fields are.
C4_UnknownModuleAlways404 ==
    [][(/\ resp'.op = "create_session"
        /\ "module_id" \in DOMAIN resp'.data
        /\ resp'.data.module_id \notin {m.id : m \in modules})
       => (resp'.status = 404 /\ sessions' = sessions)
      ]_vars

\* C4 amended: such a request stores no row; it yields 404 when duration
\* and date are present and duration > 0, and 400 otherwise.
C4_UnknownModuleNoRow ==
    [][(/\ resp'.op = "create_session"
        /\ "module_id" \in DOMAIN resp'.data
        /\ resp'.data.module_id \notin {m.id : m \in modules})
       => /\ sessions' = sessions
          /\ resp'.status =
               IF /\ {"duration", "date"} \subseteq DOMAIN resp'.data
                  /\ resp'.data.duration > 0
               THEN 404 ELSE 400
      ]_vars

\* C4 witness: a Session creation was answered 404 for its module_id while
\* a Module and a Session are stored.
C4_Witness ==
    /\ resp.op = "create_session" /\ resp.status = 404
    /\ resp.data.module_id \notin {m.id : m \in modules}
    /\ modules # {} /\ sessions # {}

\* C5: creating a Session with duration <= 0 yields 400 and stores no row,
\* and every stored Session has duration > 0.
C5_NonPositiveDurationRejected ==
    [][/\ (/\ resp'.op = "create_session"
           /\ "duration" \in DOMAIN resp'.data
           /\ resp'.data.duration <= 0)
          => (resp'.status = 400 /\ sessions' = sessions)
       /\ \A s \in sessions' : s.duration > 0
      ]_vars

\* C5 witness: a Session creation was rejected for its duration while a
\* Session is stored.
C5_Witness ==
    /\ resp.op = "create_session" /\ resp.status = 400
    /\ resp.error = "duration muss groesser als 0 sein"
    /\ resp.data.duration <= 0
    /\ resp.data.module_id \in {m.id : m \in modules}
    /\ sessions # {}

\* C6 as claimed: POST /recommend while no Module is stored returns 400 and
\* creates no Recommendation row.
C6_NoModules400 ==
    [][(resp'.op = "create_recommendation" /\ modules = {})
          => (resp'.status = 400 /\ recs' = recs)
      ]_vars

\* C6 amended: POST /recommend while no Module is stored creates no row; it
\* returns 400 when the credential is configured and 503 when it is empty
\* or the placeholder.
C6_NoModulesNoRow ==
    [][(resp'.op = "create_recommendation" /\ modules = {})
          => /\ recs' = recs
             /\ resp'.status =
                  IF apiKey \in {"", "your-api-key-here"} THEN 503 ELSE 400
      ]_vars

\* C6 witness: POST /recommend was answered 400 with no Module stored.
C6_Witness ==
    /\ resp.op = "create_recommendation" /\ resp.status = 400
    /\ modules = {}

\* C7: with the credential empty or the placeholder, POST /recommend
\* returns 503, calls no external service and creates no row.
C7_NoCredential503 ==
    apiKey \in {"", "your-api-key-here"}
    => /\ recs = 0
       /\ resp.op = "create_recommendation"
          => (resp.status = 503 /\ ~resp.called)

\* C7 witness: POST /recommend was answered 503 under the placeholder
\* credential while a Module is stored.
C7_Witness ==
    /\ resp.op = "create_recommendation" /\ resp.status = 503
    /\ apiKey = "your-api-key-here"
    /\ modules # {}

\* The list a GET /sessions response holds is the first Len(body) entries of
\* a date-descending list of all stored Sessions: its entries are distinct
\* stored Sessions in non-increasing order of date, and no Session left out
\* is dated after one that is in it.
IsDateDescPrefix(body) ==
    /\ \A i \in DOMAIN body : body[i] \in sessions
    /\ \A i, j \in DOMAIN body : i # j => body[i] # body[j]
    /\ \A i, j \in DOMAIN body : i < j => body[i].date >= body[j].date
    /\ \A i \in DOMAIN body :
          \A s \in sessions \ {body[k] : k \in DOMAIN body} : s.date <= body[i].date

\* The smaller of two numbers.
Min(a, b) == IF a <= b THEN a ELSE b

\* C8 as claimed: GET /sessions with limit=N returns at most N Sessions, the
\* first N of the date-descending list; without a limit it returns them all.
C8_LimitTruncates ==
    resp.op = "get_sessions" =>
        /\ resp.status = 200
        /\ IsDateDescPrefix(resp.body)
        /\ Len(resp.body) =
             IF "limit" \in DOMAIN resp.args
             THEN Min(resp.args.limit, Cardinality(sessions))
             ELSE Cardinality(sessions)

\* C8 amended: the same for a positive N; without a limit every stored
\* Session is returned, in non-increasing order of date.
C8_PositiveLimitTruncates ==
    (resp.op = "get_sessions"
       /\ ("limit" \in DOMAIN resp.args => resp.args.limit > 0)) =>
        /\ resp.status = 200
        /\ IsDateDescPrefix(resp.body)
        /\ Len(resp.body) =
             IF "limit" \in DOMAIN resp.args
             THEN Min(resp.args.limit, Cardinality(sessions))
             ELSE Cardinality(sessions)

\* C8 witness: limit=1 cut a list of two Sessions of different dates to the
\* later one.
C8_Witness ==
    /\ resp.op = "get_sessions"
    /\ "limit" \in DOMAIN resp.args /\ resp.args.limit = 1
    /\ Len(resp.body) = 1
    /\ \E s \in sessions : s.date < resp.body[1].date

\* The dates of the dashboard's windows as of the date <<y, m, d>>: the day
\* itself, the days of its Monday-based week up to it, and the days of its
\* month up to it.
DayWindow(now) == {ToOrdinal(now[1], now[2], now[3])}

WeekWindow(now) ==
    LET t == ToOrdinal(now[1], now[2], now[3])
    IN  {t - k : k \in {i \in 0..6 : ((t - i + 6) % 7) + i = ((t + 6) % 7)}}

MonthWindow(now) == {ToOrdinal(now[1], now[2], d) : d \in 1..now[3]}

\* h hundredths of an hour is total 256ths of an hour exactly.
IsExactly(h, total) == 64 * h = 25 * total

\* h hundredths of an hour is total 256ths of an hour rounded to two
\* decimals: no hundredth is nearer.
IsRounded(h, total) == 64 * h - 25 * total \in -32..32

\* C9 as claimed: the dashboard's hours equal the sums of the durations of
\* the Sessions dated in the day, week and month windows, and its counts
\* are the numbers of Sessions in the day and week windows.
C9_DashboardExactSums ==
    resp.op = "get_dashboard" =>
        LET dated(W) == {s \in sessions : s.date \in W}
        IN  /\ IsExactly(resp.hours_today, SumDurations(dated(DayWindow(resp.today))))
            /\ IsExactly(resp.hours_week, SumDurations(dated(WeekWindow(resp.today))))
            /\ IsExactly(resp.hours_month, SumDurations(dated(MonthWindow(resp.today))))
            /\ resp.sessions_today = Cardinality(dated(DayWindow(resp.today)))
            /\ resp.sessions_week = Cardinality(dated(WeekWindow(resp.today)))

\* C9 amended: the hours are those sums rounded to two decimals.
C9_DashboardRoundedSums ==
    resp.op = "get_dashboard" =>
        LET dated(W) == {s \in sessions : s.date \in W}
        IN  /\ IsRounded(resp.hours_today, SumDurations(dated(DayWindow(resp.today))))
            /\ IsRounded(resp.hours_week, SumDurations(dated(WeekWindow(resp.today))))
            /\ IsRounded(resp.hours_month, SumDurations(dated(MonthWindow(resp.today))))
            /\ resp.sessions_today = Cardinality(dated(DayWindow(resp.today)))
            /\ resp.sessions_week = Cardinality(dated(WeekWindow(resp.today)))

\* C9 witness: a dashboard asked on a day with one Session, in a week with
\* two, the earlier of them in the month before.
C9_Witness ==
    /\ resp.op = "get_dashboard"
    /\ resp.sessions_today = 1 /\ resp.sessions_week = 2
    /\ 0 < resp.hours_today /\ resp.hours_today < resp.hours_week
    /\ resp.hours_month < resp.hours_week

\* What C10 says of the progress of a Module: 0 when target_hours is 0,
\* and 0 when the Module has no Session.
ProgressIsZeroWhereClaimed(m) ==
    /\ m.target_hours = 0 => get_progress_percentage(m) = 0
    /\ ModuleSessions(m.id) = {} => get_progress_percentage(m) = 0

\* A Session has just been deleted (DELETE /api/sessions/<id> answered 200)
\* and the Module it belonged to is stored.
SessionDeletedOf(m) ==
    /\ resp'.op = "delete_session" /\ resp'.status = 200
    /\ \E s \in sessions : s.id = resp'.id /\ s.module_id = m.id
    /\ m \in modules'

\* What C10 says of a state, exactly as claimed: a Module's actual_hours is
\* the sum of the durations of its stored Sessions (0, with progress 0, for
\* a Module without Sessions, a new one among them), and progress is 0
\* when target_hours is 0.
ActualHoursExact ==
    /\ \A m \in modules :
          /\ IsExactly(get_actual_hours(m.id),
                       SumDurations({s \in sessions : s.module_id = m.id}))
          /\ ProgressIsZeroWhereClaimed(m)
    /\ (resp.op = "create_module" /\ resp.status = 201)
       => (resp.body.actual_hours = 0 /\ resp.body.progress_percentage = 0)
    /\ (resp.op = "get_module" /\ resp.status = 200)
       => IsExactly(resp.body.actual_hours,
                    SumDurations({s \in sessions : s.module_id = resp.id}))

\* The same with the sum rounded to two decimals.
ActualHoursRounded ==
    /\ \A m \in modules :
          /\ IsRounded(get_actual_hours(m.id),
                       SumDurations({s \in sessions : s.module_id = m.id}))
          /\ ProgressIsZeroWhereClaimed(m)
    /\ (resp.op = "create_module" /\ resp.status = 201)
       => (resp.body.actual_hours = 0 /\ resp.body.progress_percentage = 0)
    /\ (resp.op = "get_module" /\ resp.status = 200)
       => IsRounded(resp.body.actual_hours,
                    SumDurations({s \in sessions : s.module_id = resp.id}))

\* C10 as claimed: after every request a Module's actual_hours is the exact
\* sum of the durations of its stored Sessions (with what follows for
\* progress), and deleting a Session of a Module makes the Module's
\* actual_hours smaller.
C10_ActualHoursExactSum ==
    [][/\ ActualHoursExact'
       /\ \A m \in modules :
             SessionDeletedOf(m)
             => (get_actual_hours(m.id))' < get_actual_hours(m.id)
      ]_vars

\* C10 amended: actual_hours is that sum rounded to two decimals; deleting
\* a Session of a Module makes the Module's actual_hours the rounded sum of
\* the Sessions that remain, which is not more than it was.
C10_ActualHoursRoundedSum ==
    [][/\ ActualHoursRounded'
       /\ \A m \in modules :
             SessionDeletedOf(m)
             => LET left == {s \in sessions : s.module_id = m.id /\ s.id # resp'.id}
                IN  /\ IsRounded((get_actual_hours(m.id))', SumDurations(left))
                    /\ (get_actual_hours(m.id))' <= get_actual_hours(m.id)
      ]_vars

\* C10 witness: a Session has been deleted, and a Module with target_hours
\* 0 still has Sessions: its actual_hours is their rounded sum, which is
\* not their exact sum, and its progress is 0.
C10_Witness ==
    /\ resp.op = "delete_session" /\ resp.status = 200
    /\ \E m \in modules :
          /\ m.target_hours = 0 /\ ModuleSessions(m.id) # {}
          /\ get_actual_hours(m.id) > 0
          /\ ~IsExactly(get_actual_hours(m.id), SumDurations(ModuleSessions(m.id)))
          /\ get_progress_percentage(m) = 0

\* C11: with Session creations and Module deletions of several workers
\* interleaved step by step, no state holds a Session whose module_id names
\* a Module that is not stored.
C11_NoOrphanUnderInterleaving ==
    {s.module_id : s \in sessions} \subseteq {m.id : m \in modules}

\* C11, the part that holds: whatever is interleaved, a step that stores
\* Sessions stores one row, under an id no stored Session has.
C11_CreationsSerialized ==
    [][~(sessions' \subseteq sessions)
          => \E s \in sessions' : /\ sessions' = sessions \cup {s}
                                  /\ s.id \notin {r.id : r \in sessions}
      ]_vars

====
